---- MODULE Spec2Model ----
(***************************************************************************)
(* testbrain: the test-run engine of lib.Runner (discovery of test         *)
(* scripts, seeded ordering, sequential execution under a timeout and the  *)
(* aggregation of the results), as a state machine.                        *)
(*                                                                         *)
(* Strings are sequences of one-character strings, so that the byte-wise   *)
(* order of sort.Strings, the separator handling of path/filepath and the  *)
(* regular-expression matches are computed and not assumed.                *)
(***************************************************************************)
EXTENDS Integers, Sequences, FiniteSets, Bags, TLC

(***************************************************************************)
(* Bounds of the model.                                                    *)
(***************************************************************************)
\* Longest TestTargets list given to a Runner.
MaxTargets == 2
\* Longest list of paths given to CommonPathPrefix.
MaxPaths == 2
\* Seeds are drawn from 0 .. MaxSeed.
MaxSeed == 1
\* Chunks of output a child process writes before it ends.
MaxWrites == 1
\* Calls of getTestScriptsWithOrder on one Runner.
MaxCalls == 2
\* Uses of math/rand's global generator by other goroutines.
MaxDraws == 1

\* Longest list handed to shuffleOrder on its own.
MaxList == 3

(***************************************************************************)
(* Strings.                                                                *)
(***************************************************************************)
\* The byte value of each character the model uses (ASCII).
Ord ==
  ("-" :> 45) @@ ("." :> 46) @@ ("/" :> 47) @@ ("0" :> 48) @@ ("1" :> 49) @@
  ("a" :> 97) @@ ("b" :> 98) @@ ("h" :> 104) @@ ("q" :> 113) @@
  ("s" :> 115) @@ ("t" :> 116) @@ ("x" :> 120)

\* Go's string comparison s < t: byte-wise, a proper prefix is smaller.
RECURSIVE StrLess(_, _)
StrLess(s, t) ==
  IF t = <<>> THEN FALSE
  ELSE IF s = <<>> THEN TRUE
  ELSE IF Head(s) # Head(t) THEN Ord[Head(s)] < Ord[Head(t)]
  ELSE StrLess(Tail(s), Tail(t))

HasPrefix(s, p) == Len(p) <= Len(s) /\ SubSeq(s, 1, Len(p)) = p

HasSuffix(s, p) == Len(p) <= Len(s) /\ SubSeq(s, Len(s) - Len(p) + 1, Len(s)) = p

Contains(s, p) == \E k \in 0 .. (Len(s) - Len(p)) : SubSeq(s, k + 1, k + Len(p)) = p

\* strings.Split(s, "/"): the pieces between separators, empty pieces kept.
RECURSIVE SplitFrom(_, _)
SplitFrom(s, cur) ==
  IF s = <<>> THEN <<cur>>
  ELSE IF Head(s) = "/" THEN <<cur>> \o SplitFrom(Tail(s), <<>>)
  ELSE SplitFrom(Tail(s), Append(cur, Head(s)))

Split(s) == SplitFrom(s, <<>>)

\* strings.Join(parts, "/").
RECURSIVE JoinSep(_)
JoinSep(parts) ==
  IF parts = <<>> THEN <<>>
  ELSE IF Len(parts) = 1 THEN parts[1]
  ELSE parts[1] \o <<"/">> \o JoinSep(Tail(parts))

\* sort.Strings: insertion into an ascending list, then the sorted list.
RECURSIVE InsertSorted(_, _)
InsertSorted(x, sorted) ==
  IF sorted = <<>> THEN <<x>>
  ELSE IF StrLess(x, Head(sorted)) THEN <<x>> \o sorted
  ELSE <<Head(sorted)>> \o InsertSorted(x, Tail(sorted))

\* The list is left in the order it was found in.
SortStringsOmitted(list) == list

RECURSIVE SortStrings(_)
SortStrings(list) ==
  IF list = <<>> THEN <<>>
  ELSE InsertSorted(Head(list), SortStrings(Tail(list)))

(***************************************************************************)
(* path/filepath on a unix system.                                         *)
(***************************************************************************)
IsAbs(path) == path # <<>> /\ Head(path) = "/"

\* The lexical pass of filepath.Clean over the elements of a path: empty and
\* "." elements are dropped, ".." removes the element before it (at the root
\* of an absolute path it is dropped, at the start of a relative one kept).
RECURSIVE CleanParts(_, _, _)
CleanParts(parts, out, rooted) ==
  IF parts = <<>> THEN out
  ELSE IF Head(parts) = <<>> \/ Head(parts) = <<".">>
    THEN CleanParts(Tail(parts), out, rooted)
  ELSE IF Head(parts) = <<".", ".">>
    THEN IF out # <<>> /\ out[Len(out)] # <<".", ".">>
           THEN CleanParts(Tail(parts), SubSeq(out, 1, Len(out) - 1), rooted)
         ELSE IF rooted THEN CleanParts(Tail(parts), out, rooted)
         ELSE CleanParts(Tail(parts), Append(out, Head(parts)), rooted)
  ELSE CleanParts(Tail(parts), Append(out, Head(parts)), rooted)

\* The elements of a path after the lexical pass.
PartsOf(path) == CleanParts(Split(path), <<>>, IsAbs(path))

CleanJoin(parts, rooted) ==
  IF rooted THEN <<"/">> \o JoinSep(parts)
  ELSE IF parts = <<>> THEN <<".">>
  ELSE JoinSep(parts)

Clean(path) ==
  IF path = <<>> THEN <<".">>
  ELSE CleanJoin(PartsOf(path), IsAbs(path))

\* filepath.Join: the non-empty elements joined by the separator and cleaned;
\* the empty string when every element is empty.
RECURSIVE NonEmpty(_)
NonEmpty(elems) ==
  IF elems = <<>> THEN <<>>
  ELSE IF Head(elems) = <<>> THEN NonEmpty(Tail(elems))
  ELSE <<Head(elems)>> \o NonEmpty(Tail(elems))

JoinNonEmpty(elems) == IF elems = <<>> THEN <<>> ELSE Clean(JoinSep(elems))

Join(elems) == JoinNonEmpty(NonEmpty(elems))

\* The working directory of the process.
Cwd == <<"/", "t">>

\* filepath.Abs.
Abs(path) == IF IsAbs(path) THEN Clean(path) ELSE Join(<<Cwd, path>>)

\* filepath.Dir: everything before the last separator, cleaned.
RECURSIVE LastSlash(_)
LastSlash(path) ==
  IF path = <<>> THEN 0
  ELSE IF path[Len(path)] = "/" THEN Len(path)
  ELSE LastSlash(SubSeq(path, 1, Len(path) - 1))

Dir(path) == Clean(SubSeq(path, 1, LastSlash(path)))

\* Length of the longest common prefix of two lists of path elements.
RECURSIVE CommonLen(_, _)
CommonLen(a, b) ==
  IF a = <<>> \/ b = <<>> \/ Head(a) # Head(b) THEN 0
  ELSE 1 + CommonLen(Tail(a), Tail(b))

\* filepath.Rel(basepath, targpath): [ok, path]. An absolute and a relative
\* path cannot be made relative to each other.
RelFrom(bp, tp, n) ==
  IF \E k \in (n + 1) .. Len(bp) : bp[k] = <<".", ".">>
    THEN [ok |-> FALSE, path |-> <<>>]
  ELSE [ok |-> TRUE,
        path |-> JoinSep([k \in 1 .. (Len(bp) - n) |-> <<".", ".">>] \o
                         SubSeq(tp, n + 1, Len(tp)))]

RelParts(bp, tp) == RelFrom(bp, tp, CommonLen(bp, tp))

RelClean(base, targ) ==
  IF targ = base THEN [ok |-> TRUE, path |-> <<".">>]
  ELSE IF IsAbs(base) # IsAbs(targ) THEN [ok |-> FALSE, path |-> <<>>]
  ELSE RelParts(PartsOf(base), PartsOf(targ))

Rel(basepath, targpath) == RelClean(Clean(basepath), Clean(targpath))

(***************************************************************************)
(* The file system the runs see.                                           *)
(***************************************************************************)
Dirs ==
  { <<"/">>,
    <<"/", "t">>,
    <<"/", "t", "/", "a">>,
    <<"/", "t", "/", "a", "-", "b">> }

Files ==
  { <<"/", "t", "/", "a", "/", "0", ".", "s", "h">>,
    <<"/", "t", "/", "a", "/", "1", ".", "s", "h">>,
    <<"/", "t", "/", "a", "/", "x">>,
    <<"/", "t", "/", "a", "-", "b", "/", "0", ".", "s", "h">> }

\* os.Stat: an error for a path that does not exist.
Stat(path) ==
  [ok |-> path \in (Dirs \cup Files), isDir |-> path \in Dirs]

\* The entries of a directory in the order filepath.Walk visits them: by name.
RECURSIVE SortedSeq(_)
SortedSeq(S) ==
  IF S = {} THEN <<>>
  ELSE LET m == CHOOSE x \in S : \A y \in S \ {x} : StrLess(x, y)
       IN <<m>> \o SortedSeq(S \ {m})

ReadDir(dir) ==
  SortedSeq({p \in (Dirs \cup Files) : p # dir /\ Dir(p) = dir})

\* filepath.Walk: the regular files below root, depth first, each
\* directory's entries in lexical order of their names.
RECURSIVE Walk(_)
RECURSIVE WalkAll(_)
Walk(path) ==
  IF path \in Files THEN <<path>> ELSE WalkAll(ReadDir(path))
WalkAll(entries) ==
  IF entries = <<>> THEN <<>>
  ELSE Walk(Head(entries)) \o WalkAll(Tail(entries))

(***************************************************************************)
(* Regular expressions: the patterns the runs use, by what they match.     *)
(*   suffix lit   - "lit$", such as the default include "_test\.sh$"       *)
(*   contains lit - a literal, such as "000"                               *)
(*   empty        - "^$", the default exclude: only the empty string       *)
(*   invalid      - a pattern regexp.Compile rejects, such as "("          *)
(***************************************************************************)
ReSuffixSh == [kind |-> "suffix", lit |-> <<".", "s", "h">>]
ReHas1 == [kind |-> "contains", lit |-> <<"1">>]
ReHasQ == [kind |-> "contains", lit |-> <<"q">>]
ReEmpty == [kind |-> "empty", lit |-> <<>>]
ReInvalid == [kind |-> "invalid", lit |-> <<"(">>]

\* regexp.Compile succeeds.
Compiles(re) == re.kind # "invalid"

\* Regexp.MatchString.
MatchString(re, s) ==
  CASE re.kind = "suffix" -> HasSuffix(s, re.lit)
    [] re.kind = "contains" -> Contains(s, re.lit)
    [] re.kind = "empty" -> s = <<>>
    [] OTHER -> FALSE

(***************************************************************************)
(* lib.CommonPathPrefix                                                    *)
(***************************************************************************)
MinLen(pathParts) ==
  CHOOSE n \in {Len(pathParts[k]) : k \in DOMAIN pathParts} :
    \A k \in DOMAIN pathParts : n <= Len(pathParts[k])

\* The loop over i (0-based in the source, i+1 here): stop at the first
\* element on which some path differs from the first path.
RECURSIVE MatchParts(_, _, _, _)
MatchParts(pathParts, i, minLen, matchingParts) ==
  IF i >= minLen THEN matchingParts
  ELSE IF \E j \in 2 .. Len(pathParts) : pathParts[j][i + 1] # pathParts[1][i + 1]
    THEN matchingParts
  ELSE MatchParts(pathParts, i + 1, minLen, Append(matchingParts, pathParts[1][i + 1]))

MatchingParts(pathParts) ==
  MatchParts(pathParts, 0, MinLen(pathParts), << <<"/">> >>)

\* The longest common prefix character by character.
CommonChars(a, b) ==
  CHOOSE n \in 0 .. Len(a) :
    /\ n <= Len(b) /\ SubSeq(a, 1, n) = SubSeq(b, 1, n)
    /\ \A m \in n + 1 .. Len(a) : ~(m <= Len(b) /\ SubSeq(a, 1, m) = SubSeq(b, 1, m))
RECURSIVE CommonPathPrefixChars(_)
CommonPathPrefixChars(paths) ==
  IF Len(paths) = 0 THEN <<>>
  ELSE IF Len(paths) = 1 THEN Abs(paths[1])
  ELSE Clean(SubSeq(Abs(paths[1]), 1,
                    CommonChars(Abs(paths[1]), CommonPathPrefixChars(Tail(paths)))))

CommonPathPrefix(paths) ==
  IF Len(paths) = 0 THEN <<>>
  ELSE Join(MatchingParts([k \in DOMAIN paths |-> Split(Abs(paths[k]))]))

(***************************************************************************)
(* Runner.getTestScripts                                                   *)
(***************************************************************************)
\* The filter without its exclude test.
RECURSIVE KeepIncluded(_, _, _)
KeepIncluded(paths, includeRe, excludeRe) ==
  IF paths = <<>> THEN <<>>
  ELSE (IF ~MatchString(includeRe, Head(paths)) THEN <<>> ELSE <<Head(paths)>>)
       \o KeepIncluded(Tail(paths), includeRe, excludeRe)

\* The loop over TestTargets: [ok, found]. A target that cannot be read
\* ends the loop with an error; a file is kept when it matches include and
\* not exclude; a directory is walked and its files filtered the same way.
RECURSIVE KeepMatching(_, _, _)
KeepMatching(paths, includeRe, excludeRe) ==
  IF paths = <<>> THEN <<>>
  ELSE (IF ~MatchString(includeRe, Head(paths)) THEN <<>>
        ELSE IF MatchString(excludeRe, Head(paths)) THEN <<>>
        ELSE <<Head(paths)>>) \o KeepMatching(Tail(paths), includeRe, excludeRe)

\* The candidates one target gives: the file itself, or the files below the
\* directory.
Candidates(testFolder, isDir) ==
  IF ~isDir THEN <<testFolder>> ELSE Walk(testFolder)

RECURSIVE FindTests(_, _, _, _)
FindTests(targets, includeRe, excludeRe, foundTests) ==
  IF targets = <<>> THEN [ok |-> TRUE, found |-> foundTests]
  ELSE IF ~Stat(Abs(Head(targets))).ok THEN [ok |-> FALSE, found |-> <<>>]
  ELSE FindTests(Tail(targets), includeRe, excludeRe,
                 foundTests \o
                   KeepMatching(Candidates(Abs(Head(targets)), Stat(Abs(Head(targets))).isDir),
                                includeRe, excludeRe))

\* The target is the root whether it is a directory or a file.
SingleTargetPrefixAsIs(testFolder, info) ==
  [ok |-> info.ok, prefix |-> IF info.ok THEN testFolder ELSE <<>>]

\* The root the found tests are reported against: [ok, prefix].
\* Lines 244-256: the root when one target was given.
SingleTargetPrefix(testFolder, info) ==
  IF ~info.ok THEN [ok |-> FALSE, prefix |-> <<>>]
  ELSE IF info.isDir THEN [ok |-> TRUE, prefix |-> testFolder]
  ELSE [ok |-> TRUE, prefix |-> Dir(testFolder)]

\* With several targets the first found test is taken without looking
\* whether there is one: an index out of range when none was found.
CommonPrefixOfFirst(targets, foundTests) ==
  IF Len(targets) > 1
    THEN IF Len(foundTests) > 1
           THEN [ok |-> TRUE, prefix |-> CommonPathPrefix(foundTests)]
         ELSE IF Len(foundTests) = 1
           THEN [ok |-> TRUE, prefix |-> Dir(foundTests[1])]
         ELSE [ok |-> FALSE, prefix |-> <<>>]
  ELSE SingleTargetPrefix(Abs(targets[1]), Stat(Abs(targets[1])))

\* With several targets the parent of the first found test is the root.
CommonPrefixOfLeading(targets, foundTests) ==
  IF Len(targets) > 1
    THEN IF Len(foundTests) = 0
           THEN [ok |-> TRUE, prefix |-> CommonPathPrefix(foundTests)]
         ELSE [ok |-> TRUE, prefix |-> Dir(foundTests[1])]
  ELSE SingleTargetPrefix(Abs(targets[1]), Stat(Abs(targets[1])))

\* Lines 229-257.
CommonPrefixOf(targets, foundTests) ==
  IF Len(targets) > 1
    THEN IF Len(foundTests) # 1
           THEN [ok |-> TRUE, prefix |-> CommonPathPrefix(foundTests)]
         ELSE [ok |-> TRUE, prefix |-> Dir(foundTests[1])]
  ELSE SingleTargetPrefix(Abs(targets[1]), Stat(Abs(targets[1])))

\* The last loop: every found path made relative to the prefix.
RelAll(commonPrefix, foundTests) ==
  [k \in DOMAIN foundTests |-> Rel(commonPrefix, foundTests[k])]

\* getTestScripts: [err, root, files]; err is "" when the call succeeds.
ScriptsError(e) == [err |-> e, root |-> <<>>, files |-> <<>>]

\* Lines 258-265.
ScriptsRelative(commonPrefix, rels) ==
  IF \E k \in DOMAIN rels : ~rels[k].ok
    THEN ScriptsError("Error finding relative path")
  ELSE [err |-> "", root |-> commonPrefix,
        files |-> [k \in DOMAIN rels |-> rels[k].path]]

\* Lines 228-265.
ScriptsUnder(cp, foundTests) ==
  IF ~cp.ok THEN ScriptsError("Error stating")
  ELSE ScriptsRelative(cp.prefix, RelAll(cp.prefix, foundTests))

\* A target that cannot be read ends discovery with what was found before
\* it and no error.
ScriptsFoundSoFar(targets, res) ==
  ScriptsUnder(CommonPrefixOf(targets, res.found), res.found)

\* Lines 186-265.
ScriptsFound(targets, res) ==
  IF ~res.ok THEN ScriptsError("Error reading test file")
  ELSE ScriptsUnder(CommonPrefixOf(targets, res.found), res.found)

getTestScripts(opts) ==
  IF ~Compiles(opts.IncludeReStr) THEN ScriptsError("Error parsing files to include")
  ELSE IF ~Compiles(opts.ExcludeReStr) THEN ScriptsError("Error parsing files to exclude")
  ELSE ScriptsFound(opts.TestTargets,
                    FindTests(opts.TestTargets, opts.IncludeReStr, opts.ExcludeReStr, <<>>))

(***************************************************************************)
(* math/rand's global generator, as the runner uses it: rand.Seed sets its *)
(* state from the seed alone, every draw advances the state and returns a  *)
(* value the state determines. The generator here is a multiplicative      *)
(* congruential one in place of the library's.                             *)
(***************************************************************************)
\* rand.Seed(seed): the state the seed gives the generator.
RandSeedOf(seed) == 1 + (seed % 30)

\* The state of the global generator before anyone seeds it: rand.Seed(1).
RandUnseeded == RandSeedOf(1)

RandNext(state) == (state * 3) % 31

\* rand.Intn(n): [value, state].
RandIntn(state, n) ==
  [value |-> RandNext(state) % n, state |-> RandNext(state)]

(***************************************************************************)
(* Runner.shuffleOrder and Runner.getTestScriptsWithOrder                  *)
(***************************************************************************)
\* An exchange that writes one of the two entries only.
SwapOverwrite(list, a, b) == [list EXCEPT ![a] = list[b]]

\* Line 273: list[i], list[source] = list[source], list[i].
Swap(list, a, b) == [list EXCEPT ![a] = list[b], ![b] = list[a]]

\* One iteration of the Fisher-Yates loop for the 0-based index i of the
\* source: source := rand.Intn(i + 1), then the two entries are exchanged.
SwapDrawn(list, i, draw) ==
  [list |-> Swap(list, i + 1, draw.value + 1), state |-> draw.state]

ShuffleIter(list, i, state) == SwapDrawn(list, i, RandIntn(state, i + 1))

RECURSIVE ShuffleLoop(_, _, _)
RECURSIVE ShuffleRest(_, _)
ShuffleLoop(list, i, state) ==
  IF i < 1 THEN [list |-> list, state |-> state]
  ELSE ShuffleRest(ShuffleIter(list, i, state), i - 1)
ShuffleRest(it, i) == ShuffleLoop(it.list, i, it.state)

\* The generator goes on from the state it is in.
ShuffleNotSeeded(state, seed) == state

\* Line 269: rand.Seed(r.options.RandomSeed) on the global generator that
\* is in state `state`.
ShuffleSeeded(state, seed) == RandSeedOf(seed)

\* shuffleOrder run without interruption: the global generator is seeded,
\* then the loop runs from the last index down to 1.
shuffleOrder(list, seed, state) ==
  ShuffleLoop(list, Len(list) - 1, ShuffleSeeded(state, seed))

\* getTestScriptsWithOrder run without interruption, the global generator
\* in state `state` at the call: [err, root, files, state].
Ordered(root, sh) ==
  [err |-> "", root |-> root, files |-> sh.list, state |-> sh.state]

\* Lines 166-173 with the result of getTestScripts.
OrderScripts(opts, got, state) ==
  IF got.err # "" THEN [err |-> got.err, root |-> <<>>, files |-> <<>>, state |-> state]
  ELSE IF ~opts.InOrder
    THEN Ordered(got.root, shuffleOrder(SortStrings(got.files), opts.RandomSeed, state))
  ELSE Ordered(got.root, [list |-> SortStrings(got.files), state |-> state])

getTestScriptsWithOrder(opts, state) == OrderScripts(opts, getTestScripts(opts), state)

(***************************************************************************)
(* The environment runSingleTest gives a script: os.Environ, the timeout   *)
(* formatted by fmt.Sprintf, and what exec.Cmd passes to the child. A      *)
(* time.Duration is a number of nanoseconds.                               *)
(***************************************************************************)
Second == 1000000000

Digits == <<"0", "1", "2", "3", "4", "5", "6", "7", "8", "9">>

\* Duration.Seconds: the whole seconds and the nanoseconds beyond them that
\* make up the floating-point number of seconds.
Seconds(d) == [sec |-> d \div Second, nsec |-> d % Second]

RECURSIVE FormatInt(_)
FormatInt(n) ==
  IF n < 10 THEN <<Digits[n + 1]>>
  ELSE FormatInt(n \div 10) \o <<Digits[(n % 10) + 1]>>

\* The decimals of nsec nanoseconds, `unit` the weight of the next decimal,
\* up to the last one that is not zero.
RECURSIVE FractionDigits(_, _)
FractionDigits(nsec, unit) ==
  IF nsec = 0 THEN <<>>
  ELSE <<Digits[(nsec \div unit) + 1]>> \o FractionDigits(nsec % unit, unit \div 10)

\* Only the whole seconds are printed.
FormatWhole(f) == FormatInt(f.sec)

\* %v of a float64 between 1e-4 and 1e6: the shortest decimal that gives
\* the number back, with no exponent.
FormatFloat(f) ==
  FormatInt(f.sec) \o
  (IF f.nsec = 0 THEN <<>> ELSE <<".">> \o FractionDigits(f.nsec, Second \div 10))

EnvEntry(key, value) == [key |-> key, value |-> value]

\* Lines 328-331: os.Environ with the timeout entry appended.
CommandEnv(env, timeout) ==
  Append(env, EnvEntry("TESTBRAIN_TIMEOUT", FormatFloat(Seconds(timeout))))

\* exec.Cmd gives the child one entry for a key: the last one in Env.
RECURSIVE DedupEnv(_)
DedupEnv(env) ==
  IF env = <<>> THEN <<>>
  ELSE (IF \E k \in 2 .. Len(env) : env[k].key = Head(env).key
          THEN <<>> ELSE <<Head(env)>>) \o DedupEnv(Tail(env))

(***************************************************************************)
(* The state of a run.                                                     *)
(***************************************************************************)
VARIABLES
  options,         \* RunnerOptions of the Runner
  pc,              \* where the engine's goroutine is
  rng,             \* state of math/rand's global generator
  testRoot,        \* root returned by getTestScriptsWithOrder
  testFiles,       \* ordered list returned by getTestScriptsWithOrder
  i,               \* 1-based index of the test runAllTests is at
  passedResults,   \* runAllTests' three result lists
  skippedResults,
  failedResults,
  stdout,          \* what was written to the Runner's stdout, in order
  stderr,          \* what was written to the Runner's stderr, in order
  outputBuf,       \* the bytes.Buffer of the current test (non-verbose)
  proc,            \* per test: state of its child process
  waitStatus,      \* per test: how its process ended, as Wait reports it
  waiter,          \* per test: the goroutine that calls command.Wait
  timer,           \* time.After channel of the current test
  writes,          \* chunks the current child has written
  started,         \* the scripts command.Start was called for, in order
  exitCodes,       \* what runSingleTest returned for the scripts run so far
  retErr,          \* what RunCommand returned
  calls,           \* results of the getTestScriptsWithOrder calls so far
  shuffleList,     \* the slice a shuffleOrder in progress works on
  shuffleI,        \* its loop index, -1 when no shuffle is in progress
  draws,           \* uses of the global generator by other goroutines
  prefixPaths,     \* the paths a caller gives to CommonPathPrefix
  prefixResult,    \* what CommonPathPrefix returned to that caller
  environ,         \* os.Environ(): the environment of the testbrain process
  childEnv,        \* the environment exec.Cmd had for each script so far
  commandOutput,   \* earlier revisions: the bytes.Buffer of the test
  timeoutReached,  \* earlier revisions: the flag the timer callback sets
  callback,        \* earlier revisions: where the timer callback is
  ctx,             \* earlier revisions: the context with the deadline
  testResult       \* earlier revisions: what runSingleTest returned

vars ==
  << options, pc, rng, testRoot, testFiles, i, passedResults, skippedResults,
     failedResults, stdout, stderr, outputBuf, proc, waitStatus, waiter, timer,
     writes, started, exitCodes, retErr, calls, shuffleList, shuffleI, draws,
     prefixPaths, prefixResult, environ, childEnv, commandOutput,
     timeoutReached, callback, ctx, testResult >>

\* The state of runSingleTest as the earlier revisions of the file have it.
revisionVars == <<commandOutput, timeoutReached, callback, ctx, testResult>>

unknownExitCode == -1
skipTestExitCode == 99

\* The statuses a script ends with: a normal exit with one of these codes,
\* or death by a signal.
ExitCodes == {0, 3, skipTestExitCode}
Exited(code) == [kind |-> "exited", code |-> code]
Signaled == [kind |-> "signaled", code |-> 9]
NoStatus == [kind |-> "none", code |-> 0]
EndStatuses == {Exited(c) : c \in ExitCodes} \cup {Signaled}

\* One write to a sink of the Runner: the text, the file and the numbers it
\* is formatted with, and for the JSON document the encoded struct.
Line(kind, file, a, b, c) ==
  [kind |-> kind, file |-> file, a |-> a, b |-> b, c |-> c, doc |-> <<>>]
TimeoutMarker == Line("Killed by testbrain: Timed out after", <<>>, 0, 0, 0)
\* A chunk of output the script of `file` writes to its stdout or stderr.
ChildOutput(file, stream) == Line(stream, file, 0, 0, 0)

(***************************************************************************)
(* The inputs of the runs.                                                 *)
(***************************************************************************)
Seeds == 0 .. MaxSeed

\* os.Environ() of a testbrain process that was started without the timeout
\* variable in its environment.
Environ == <<EnvEntry("PATH", <<"/">>)>>

RunTargetLists ==
  { << <<"/", "t", "/", "a">> >>,
    << <<"/", "t", "/", "a", "-", "b">>, <<"/", "t", "/", "a", "/", "1", ".", "s", "h">> >>,
    << <<"/", "t", "/", "q">> >> }

RunOptions ==
  [ TestTargets : RunTargetLists,
    IncludeReStr : {ReSuffixSh, ReInvalid},
    ExcludeReStr : {ReEmpty, ReInvalid},
    InOrder : BOOLEAN,
    RandomSeed : Seeds,
    JSONOutput : BOOLEAN,
    Verbose : BOOLEAN,
    DryRun : BOOLEAN,
    Timeout : {Second} ]

\* NewRunner: nothing has run.
InitEngine ==
  /\ rng = RandUnseeded
  /\ testRoot = <<>>
  /\ testFiles = <<>>
  /\ i = 0
  /\ passedResults = <<>>
  /\ skippedResults = <<>>
  /\ failedResults = <<>>
  /\ stdout = <<>>
  /\ stderr = <<>>
  /\ outputBuf = <<>>
  /\ proc = <<>>
  /\ waitStatus = <<>>
  /\ waiter = <<>>
  /\ timer = "idle"
  /\ writes = 0
  /\ started = <<>>
  /\ exitCodes = <<>>
  /\ retErr = "pending"
  /\ calls = <<>>
  /\ shuffleList = <<>>
  /\ shuffleI = -1
  /\ draws = 0
  /\ childEnv = <<>>
  /\ commandOutput = <<>>
  /\ timeoutReached = FALSE
  /\ callback = "idle"
  /\ ctx = "none"
  /\ testResult = <<>>

\* A Runner whose RunCommand or getTestScriptsWithOrder is about to be
\* called; nobody calls CommonPathPrefix from outside.
InitRunner ==
  /\ pc = "RunCommand"
  /\ prefixPaths = <<>>
  /\ prefixResult = <<>>
  /\ InitEngine

Init ==
  /\ options \in RunOptions
  /\ environ = Environ
  /\ InitRunner

(***************************************************************************)
(* Runner.RunCommand up to the call of runAllTests.                        *)
(***************************************************************************)
N == Len(testFiles)

\* Lines 135-140: the header, in text mode only.
HeaderLines(files) ==
  IF options.JSONOutput THEN <<>>
  ELSE <<Line("Found test files", <<>>, Len(files), 0, 0)>> \o
       (IF ~options.InOrder
          THEN <<Line("Using seed", <<>>, options.RandomSeed, 0, 0)>> ELSE <<>>)

\* Lines 141-148: the listing of a dry run, in text mode only.
DryRunLines(root, files) ==
  IF options.JSONOutput THEN <<>>
  ELSE <<Line("Test root", root, 0, 0, 0), Line("Test files:", <<>>, 0, 0, 0)>> \o
       [k \in DOMAIN files |-> Line("file", files[k], 0, 0, 0)]

RunCommand ==
  /\ pc = "RunCommand"
  /\ \E res \in {getTestScriptsWithOrder(options, rng)} :
        /\ rng' = res.state
        /\ testRoot' = res.root
        /\ testFiles' = res.files
        /\ calls' = Append(calls, [err |-> res.err, root |-> res.root, files |-> res.files])
        /\ IF res.err # ""
             THEN /\ retErr' = res.err
                  /\ pc' = "done"
                  /\ UNCHANGED <<stdout, i, proc, waitStatus, waiter>>
           ELSE IF options.DryRun
             THEN /\ stdout' = stdout \o HeaderLines(res.files) \o DryRunLines(res.root, res.files)
                  /\ retErr' = "nil"
                  /\ pc' = "done"
                  /\ UNCHANGED <<i, proc, waitStatus, waiter>>
           ELSE /\ stdout' = stdout \o HeaderLines(res.files)
                /\ pc' = "runAllTests"
                /\ i' = 1
                /\ proc' = [k \in DOMAIN res.files |-> "idle"]
                /\ waitStatus' = [k \in DOMAIN res.files |-> NoStatus]
                /\ waiter' = [k \in DOMAIN res.files |-> "none"]
                /\ UNCHANGED retErr
  /\ UNCHANGED <<options, passedResults, skippedResults, failedResults, stderr,
                 outputBuf, timer, writes, started, exitCodes, shuffleList, shuffleI, draws, prefixPaths, prefixResult,
                 environ, childEnv, revisionVars>>

(***************************************************************************)
(* Runner.runAllTests and Runner.runSingleTest                             *)
(***************************************************************************)
PassedResult(testFile) == [TestFile |-> testFile]
SkippedResult(testFile) == [TestFile |-> testFile]
\* Every failure is recorded with exit code 1.
FailedResultAsOne(testFile, exitCode) == [TestFile |-> testFile, ExitCode |-> 1]
\* Lines 306-309.
FailedResult(testFile, exitCode) == [TestFile |-> testFile, ExitCode |-> exitCode]

\* The unknown exit code is given an outcome of its own, which no list holds.
VerdictErrored(exitCode) ==
  IF exitCode = skipTestExitCode THEN "SKIPPED"
  ELSE IF exitCode = 0 THEN "PASSED"
  ELSE IF exitCode = unknownExitCode THEN "ERRORED"
  ELSE "FAILED"

\* The skip code is treated like any other nonzero exit code.
VerdictNoSkip(exitCode) ==
  IF exitCode = 0 THEN "PASSED" ELSE "FAILED"

\* Lines 297-305: the list a test's exit code puts it in.
Verdict(exitCode) ==
  IF exitCode = skipTestExitCode THEN "SKIPPED"
  ELSE IF exitCode = 0 THEN "PASSED"
  ELSE "FAILED"

\* The buffer is replayed in non-verbose mode whatever the verdict.
ReplayLinesAlways(exitCode, buf) ==
  IF ~options.Verbose THEN <<Line("Test output:", <<>>, 0, 0, 0)>> \o buf ELSE <<>>

\* Lines 312-315: a failed test's buffer is replayed in non-verbose mode.
ReplayLines(exitCode, buf) ==
  IF Verdict(exitCode) = "FAILED" /\ ~options.Verbose
    THEN <<Line("Test output:", <<>>, 0, 0, 0)>> \o buf
  ELSE <<>>

\* Lines 297-316 for the test at i, which ended with exitCode; `out` is the
\* Runner's stdout and `buf` the test's buffer at that moment.
RecordResult(exitCode, out, buf) ==
  LET testFile == testFiles[i]
      verdict == Verdict(exitCode)
  IN /\ skippedResults' =
          IF verdict = "SKIPPED" THEN Append(skippedResults, SkippedResult(testFile))
          ELSE skippedResults
     /\ passedResults' =
          IF verdict = "PASSED" THEN Append(passedResults, PassedResult(testFile))
          ELSE passedResults
     /\ failedResults' =
          IF verdict = "FAILED" THEN Append(failedResults, FailedResult(testFile, exitCode))
          ELSE failedResults
     /\ stdout' = out \o <<Line(verdict, testFile, 0, 0, 0)>> \o ReplayLines(exitCode, buf)
     /\ outputBuf' = IF verdict = "FAILED" /\ ~options.Verbose THEN <<>> ELSE buf
     /\ exitCodes' = Append(exitCodes, exitCode)
     /\ i' = i + 1

\* The loop stops at the first failed test.
LoopDoneOnFailure == i > N \/ Len(failedResults) > 0

\* Line 281: the range loop is over when every script has had its turn.
LoopDone == i > N

\* Lines 281-284: the progress line, in text mode only.
RunningLines ==
  IF options.JSONOutput THEN <<>>
  ELSE <<Line("Running test", testFiles[i], i, N, 0)>>

\* Lines 281-295 and 321-345: the loop takes the next script, sets up its
\* environment and starts it.
\* command.Start fails (the script is missing or not executable) or gives a
\* child process, a goroutine that waits for it and a timer.
StartTest ==
  /\ pc = "runAllTests"
  /\ ~LoopDone
  /\ started' = Append(started, testFiles[i])
  /\ childEnv' = Append(childEnv, DedupEnv(CommandEnv(environ, options.Timeout)))
  /\ \/ /\ proc' = [proc EXCEPT ![i] = "running"]
        /\ waiter' = [waiter EXCEPT ![i] = "waiting"]
        /\ timer' = "armed"
        /\ writes' = 0
        /\ outputBuf' = <<>>
        /\ stdout' = stdout \o RunningLines
        /\ pc' = "select"
        /\ UNCHANGED <<stderr, passedResults, skippedResults, failedResults, i,
                       exitCodes>>
     \/ /\ proc' = [proc EXCEPT ![i] = "nostart"]
        /\ stderr' = Append(stderr, Line("Test failed:", testFiles[i], 0, 0, 0))
        /\ RecordResult(unknownExitCode, stdout \o RunningLines, <<>>)
        /\ UNCHANGED <<waiter, timer, writes, pc>>
  /\ UNCHANGED <<options, rng, testRoot, testFiles, waitStatus, retErr, calls,
                 shuffleList, shuffleI, draws, prefixPaths, prefixResult,
                 environ, revisionVars>>

\* The running script writes a chunk to its stdout or stderr: in verbose
\* mode these are the Runner's sinks, otherwise both are the test's buffer.
ChildWrite ==
  /\ pc = "select"
  /\ proc[i] = "running"
  /\ writes < MaxWrites
  /\ writes' = writes + 1
  /\ \E stream \in {"stdout", "stderr"} :
       LET chunk == ChildOutput(testFiles[i], stream)
       IN IF ~options.Verbose
            THEN /\ outputBuf' = Append(outputBuf, chunk)
                 /\ UNCHANGED <<stdout, stderr>>
          ELSE IF stream = "stdout"
            THEN /\ stdout' = Append(stdout, chunk)
                 /\ UNCHANGED <<stderr, outputBuf>>
          ELSE /\ stderr' = Append(stderr, chunk)
               /\ UNCHANGED <<stdout, outputBuf>>
  /\ UNCHANGED <<options, pc, rng, testRoot, testFiles, i, passedResults,
                 skippedResults, failedResults, proc, waitStatus, waiter, timer,
                 started, exitCodes, retErr, calls, shuffleList, shuffleI, draws, prefixPaths, prefixResult,
                 environ, childEnv, revisionVars>>

\* The running script ends by itself: it exits with a code or a signal
\* kills it.
ProcEnd ==
  /\ pc = "select"
  /\ proc[i] = "running"
  /\ \E status \in EndStatuses :
       waitStatus' = [waitStatus EXCEPT ![i] = status]
  /\ proc' = [proc EXCEPT ![i] = "exited"]
  /\ UNCHANGED <<options, pc, rng, testRoot, testFiles, i, passedResults,
                 skippedResults, failedResults, stdout, stderr, outputBuf, waiter,
                 timer, writes, started, exitCodes, retErr, calls, shuffleList, shuffleI, draws, prefixPaths, prefixResult,
                 environ, childEnv, revisionVars>>

\* Lines 340-341: command.Wait returns in the waiting goroutine once the
\* process has ended (by itself or by the Runner's kill); the goroutine
\* then offers the result on the unbuffered channel done.
WaitReturns ==
  \E k \in DOMAIN waiter :
    /\ waiter[k] = "waiting"
    /\ proc[k] \in {"exited", "killed"}
    /\ waitStatus' = [waitStatus EXCEPT ![k] = IF proc[k] = "killed" THEN Signaled ELSE @]
    /\ proc' = [proc EXCEPT ![k] = "reaped"]
    /\ waiter' = [waiter EXCEPT ![k] = "sending"]
    /\ UNCHANGED <<options, pc, rng, testRoot, testFiles, i, passedResults,
                   skippedResults, failedResults, stdout, stderr, outputBuf, timer,
                   writes, started, exitCodes, retErr, calls, shuffleList, shuffleI, draws, prefixPaths, prefixResult,
                 environ, childEnv, revisionVars>>

\* The timer's channel never becomes ready.
TimerNever == FALSE /\ UNCHANGED vars

\* Line 345: the timeout elapses and the timer's channel becomes ready.
TimerFire ==
  /\ timer = "armed"
  /\ timer' = "fired"
  /\ UNCHANGED <<options, pc, rng, testRoot, testFiles, i, passedResults,
                 skippedResults, failedResults, stdout, stderr, outputBuf, proc,
                 waitStatus, waiter, writes, started, exitCodes, retErr, calls, shuffleList,
                 shuffleI, draws, prefixPaths, prefixResult,
                 environ, childEnv, revisionVars>>

\* Every unsuccessful exit is reported with the same code.
getErrorCodeFlat(status) ==
  IF status = Exited(0) THEN 0 ELSE 1

\* Lines 362-384: the exit code of a process that has ended.
getErrorCode(status) ==
  IF status = Exited(0) THEN 0
  ELSE IF status.kind = "exited" THEN status.code
  ELSE IF status.kind = "signaled" THEN -1
  ELSE unknownExitCode

\* Lines 352-359 and 297-316: the select receives the wait result.
SelectDone ==
  /\ pc = "select"
  /\ waiter[i] = "sending"
  /\ waiter' = [waiter EXCEPT ![i] = "finished"]
  /\ timer' = "idle"
  /\ RecordResult(getErrorCode(waitStatus[i]), stdout, outputBuf)
  /\ pc' = "runAllTests"
  /\ UNCHANGED <<options, rng, testRoot, testFiles, stderr, proc, waitStatus,
                 writes, started, retErr, calls, shuffleList, shuffleI, draws, prefixPaths, prefixResult,
                 environ, childEnv, revisionVars>>

\* The process is left alone.
KillSkipped(state) == state

\* Line 349: command.Process.Kill() ends a process that is still running
\* and fails without effect on one that has ended.
Kill(state) == IF state = "running" THEN "killed" ELSE state

\* Lines 348-351 and 297-316: the select receives from the timer; the
\* process is sent SIGKILL and the test ends with the unknown exit code.
SelectTimeout ==
  /\ pc = "select"
  /\ timer = "fired"
  /\ proc' = [proc EXCEPT ![i] = Kill(@)]
  /\ stderr' = Append(stderr, TimeoutMarker)
  /\ timer' = "idle"
  /\ RecordResult(unknownExitCode, stdout, outputBuf)
  /\ pc' = "runAllTests"
  /\ UNCHANGED <<options, rng, testRoot, testFiles, waitStatus, waiter, writes,
                 started, retErr, calls, shuffleList, shuffleI, draws, prefixPaths, prefixResult,
                 environ, childEnv, revisionVars>>

(***************************************************************************)
(* Runner.outputResults, Runner.outputResultsJSON and RunCommand's return. *)
(***************************************************************************)
outputResults(passed, skipped, failed) ==
  <<Line("Tests complete", <<>>, Len(passed), Len(skipped), Len(failed))>> \o
  (IF Len(skipped) > 0
     THEN <<Line("Skipped tests:", <<>>, 0, 0, 0)>> \o
          [k \in DOMAIN skipped |-> Line("skipped test", skipped[k].TestFile, 0, 0, 0)]
   ELSE <<>>) \o
  (IF Len(failed) > 0
     THEN <<Line("Failed tests:", <<>>, 0, 0, 0)>> \o
          [k \in DOMAIN failed |->
             Line("failed test with exit code", failed[k].TestFile, failed[k].ExitCode, 0, 0)]
   ELSE <<>>)

\* The document carries the seed of the options also when InOrder is set.
outputResultsJSONSeeded(passed, skipped, failed) ==
  << [Line("json", <<>>, 0, 0, 0) EXCEPT !.doc =
        << [ Passed |-> Len(passed),
             Skipped |-> Len(skipped),
             Failed |-> Len(failed),
             Seed |-> options.RandomSeed,
             InOrder |-> options.InOrder,
             PassedList |-> passed,
             SkippedList |-> skipped,
             FailedList |-> failed ] >>] >>

\* Lines 413-445: the struct the JSON encoder writes, as one write to stdout.
outputResultsJSON(passed, skipped, failed) ==
  LET displayedSeed == IF options.InOrder THEN unknownExitCode ELSE options.RandomSeed
      jsonOutputStruct ==
        [ Passed |-> Len(passed),
          Skipped |-> Len(skipped),
          Failed |-> Len(failed),
          Seed |-> displayedSeed,
          InOrder |-> options.InOrder,
          PassedList |-> passed,
          SkippedList |-> skipped,
          FailedList |-> failed ]
  IN << [Line("json", <<>>, 0, 0, 0) EXCEPT !.doc = <<jsonOutputStruct>>] >>

\* Failed tests are reported but the run counts as a success.
RunErrorNever(failed) == "nil"

\* Lines 158-161: the error RunCommand returns after the tests have run.
RunError(failed) == IF Len(failed) = 0 THEN "nil" ELSE "tests failed"

\* Lines 153-161: the loop is over; the results are written and RunCommand
\* returns an error when a test is in the failed list.
Finish ==
  /\ pc = "runAllTests"
  /\ LoopDone
  /\ stdout' = stdout \o
       (IF options.JSONOutput
          THEN outputResultsJSON(passedResults, skippedResults, failedResults)
        ELSE outputResults(passedResults, skippedResults, failedResults))
  /\ retErr' = RunError(failedResults)
  /\ pc' = "done"
  /\ UNCHANGED <<options, rng, testRoot, testFiles, i, passedResults,
                 skippedResults, failedResults, stderr, outputBuf, proc, waitStatus,
                 waiter, timer, writes, started, exitCodes, calls, shuffleList, shuffleI, draws, prefixPaths, prefixResult,
                 environ, childEnv, revisionVars>>

Next ==
  \/ RunCommand
  \/ StartTest
  \/ ChildWrite
  \/ ProcEnd
  \/ WaitReturns
  \/ TimerFire
  \/ SelectDone
  \/ SelectTimeout
  \/ Finish

Spec == Init /\ [][Next]_vars

(***************************************************************************)
(* Properties of a run.                                                    *)
(***************************************************************************)
\* The number of scripts runAllTests is through with.
Completed == IF i = 0 THEN 0 ELSE i - 1

\* RunCommand has run the tests: discovery succeeded and it was no dry run.
RanTests == pc = "done" /\ calls[1].err = "" /\ ~options.DryRun

\* How often a script is in a result list, and among the first n scripts.
InList(list, f) == Cardinality({k \in DOMAIN list : list[k].TestFile = f})
InFirst(n, f) == Cardinality({k \in 1 .. n : testFiles[k] = f})
InLists(f) ==
  InList(passedResults, f) + InList(skippedResults, f) + InList(failedResults, f)

\* The select of runSingleTest received the wait result of script k: the
\* script's completion, not the timeout, decided the test.
Received(k) == waiter[k] = "finished"
\* The select of runSingleTest took the timeout branch for script k.
TimedOut(k) == proc[k] # "nostart" /\ waiter[k] # "finished"

\* C1: after a non-dry-run RunCommand over n discovered scripts the lengths
\* of the passed, skipped and failed lists add up to n and every script is
\* in exactly one of the lists, whatever mix of exit codes, timeouts and
\* spawn failures occurred; during the run the same holds of the scripts
\* the loop is through with.
C1_OneListEach ==
  /\ Len(passedResults) + Len(skippedResults) + Len(failedResults) = Completed
  /\ \A k \in 1 .. Completed : InLists(testFiles[k]) = InFirst(Completed, testFiles[k])
  /\ RanTests => Completed = N

C1_Witness ==
  /\ RanTests
  /\ N = 2
  /\ Len(passedResults) = 1
  /\ Len(failedResults) = 1
  /\ \E k \in 1 .. N : proc[k] = "nostart"

HasMarker(sink) == \E j \in DOMAIN sink : sink[j] = TimeoutMarker
Markers(sink) == Cardinality({j \in DOMAIN sink : sink[j] = TimeoutMarker})

\* Where the output of a test is to be found: the streams of the script
\* are the Runner's own in verbose mode; otherwise the output is captured
\* and, for a failed test, replayed on the Runner's stdout.
TestOutput == IF options.Verbose THEN stdout \o stderr ELSE stdout \o outputBuf

C5_StartedInOrder ==
  /\ Len(started) <= N
  /\ started = SubSeq(testFiles, 1, Len(started))
  /\ Len(started) \in {Completed, Completed + 1}
  /\ RanTests => started = testFiles

\* The first script could not be started or timed out, the second ran.
C5_Witness ==
  /\ RanTests
  /\ N = 2
  /\ exitCodes[1] = -1
  /\ Received(2)
  /\ started = testFiles

\* C6: RunCommand returns an error exactly when discovery failed or a test
\* is in the failed list; a successful dry run returns nil.
C6_ErrorIffFailure ==
  pc = "done" =>
    /\ retErr # "pending"
    /\ (retErr # "nil") <=> (calls[1].err # "" \/ Len(failedResults) > 0)
    /\ (options.DryRun /\ calls[1].err = "") => retErr = "nil"

C6_Witness ==
  /\ RanTests
  /\ retErr # "nil"
  /\ Len(failedResults) = 1
  /\ Len(skippedResults) = 1

(***************************************************************************)
(* getTestScriptsWithOrder called repeatedly on one Runner, as the tests   *)
(* of the package do, with shuffleOrder taken one access to the global     *)
(* generator at a time.                                                    *)
(***************************************************************************)
Targets ==
  { <<"/", "t">>,
    <<"/", "t", "/", "a">>,
    <<"/", "t", "/", "a", "/", "0", ".", "s", "h">>,
    <<"/", "t", "/", "a", "/", "x">>,
    <<"/", "t", "/", "a", "-", "b", "/", "0", ".", "s", "h">>,
    <<"/", "t", "/", "q">>,
    <<"a">> }

TargetLists == UNION {[1 .. n -> Targets] : n \in 1 .. MaxTargets}

OrderOptions ==
  [ TestTargets : TargetLists,
    IncludeReStr : {ReSuffixSh, ReHasQ, ReInvalid},
    ExcludeReStr : {ReEmpty, ReHas1, ReInvalid},
    InOrder : BOOLEAN,
    RandomSeed : Seeds,
    JSONOutput : {FALSE},
    Verbose : {FALSE},
    DryRun : {FALSE},
    Timeout : {Second} ]

InitOrder ==
  /\ options \in OrderOptions
  /\ environ = Environ
  /\ InitRunner

CallResult(err, root, files) == [err |-> err, root |-> root, files |-> files]

\* Lines 165-170: getTestScripts, then sort.Strings; the call returns at
\* once on an error or with InOrder, otherwise shuffleOrder begins.
OrderCall ==
  /\ pc = "RunCommand"
  /\ Len(calls) < MaxCalls
  /\ \E got \in {getTestScripts(options)} :
       IF got.err # ""
         THEN /\ calls' = Append(calls, CallResult(got.err, <<>>, <<>>))
              /\ UNCHANGED <<pc, testRoot, shuffleList>>
       ELSE IF options.InOrder
         THEN /\ calls' = Append(calls, CallResult("", got.root, SortStrings(got.files)))
              /\ UNCHANGED <<pc, testRoot, shuffleList>>
       ELSE /\ testRoot' = got.root
            /\ shuffleList' = SortStrings(got.files)
            /\ pc' = "shuffleOrder"
            /\ UNCHANGED calls
  /\ UNCHANGED <<options, rng, testFiles, i, passedResults, skippedResults,
                 failedResults, stdout, stderr, outputBuf, proc, waitStatus, waiter,
                 timer, writes, started, exitCodes, retErr, shuffleI, draws, prefixPaths, prefixResult,
                 environ, childEnv, revisionVars>>

\* Line 269.
ShuffleSeed ==
  /\ pc = "shuffleOrder"
  /\ rng' = ShuffleSeeded(rng, options.RandomSeed)
  /\ shuffleI' = Len(shuffleList) - 1
  /\ pc' = "shuffleLoop"
  /\ UNCHANGED <<options, testRoot, testFiles, i, passedResults, skippedResults,
                 failedResults, stdout, stderr, outputBuf, proc, waitStatus, waiter,
                 timer, writes, started, exitCodes, retErr, calls, shuffleList, draws, prefixPaths, prefixResult,
                 environ, childEnv, revisionVars>>

\* Lines 271-274: one iteration of the loop.
ShuffleStep ==
  /\ pc = "shuffleLoop"
  /\ shuffleI >= 1
  /\ \E it \in {ShuffleIter(shuffleList, shuffleI, rng)} :
       /\ shuffleList' = it.list
       /\ rng' = it.state
  /\ shuffleI' = shuffleI - 1
  /\ UNCHANGED <<options, pc, testRoot, testFiles, i, passedResults, skippedResults,
                 failedResults, stdout, stderr, outputBuf, proc, waitStatus, waiter,
                 timer, writes, started, exitCodes, retErr, calls, draws, prefixPaths, prefixResult,
                 environ, childEnv, revisionVars>>

\* The loop is over: shuffleOrder and getTestScriptsWithOrder return.
ShuffleReturn ==
  /\ pc = "shuffleLoop"
  /\ shuffleI < 1
  /\ calls' = Append(calls, CallResult("", testRoot, shuffleList))
  /\ shuffleI' = -1
  /\ pc' = "RunCommand"
  /\ UNCHANGED <<options, rng, testRoot, testFiles, i, passedResults, skippedResults,
                 failedResults, stdout, stderr, outputBuf, proc, waitStatus, waiter,
                 timer, writes, started, exitCodes, retErr, shuffleList, draws, prefixPaths, prefixResult,
                 environ, childEnv, revisionVars>>

\* Code outside the Runner uses math/rand's global generator: it draws a
\* number (draw) or seeds the generator.
OtherUse(draw) ==
  /\ draws < MaxDraws
  /\ draws' = draws + 1
  /\ IF draw
       THEN rng' = RandNext(rng)
       ELSE \E seed \in Seeds : rng' = RandSeedOf(seed)
  /\ UNCHANGED <<options, pc, testRoot, testFiles, i, passedResults, skippedResults,
                 failedResults, stdout, stderr, outputBuf, proc, waitStatus, waiter,
                 timer, writes, started, exitCodes, retErr, calls, shuffleList, shuffleI, prefixPaths, prefixResult,
                 environ, childEnv, revisionVars>>

\* Numbers are drawn elsewhere between the calls of the Runner.
PriorDraw ==
  /\ pc = "RunCommand"
  /\ OtherUse(TRUE)

\* Another goroutine draws from or seeds the generator at any moment.
Interfere ==
  \E draw \in BOOLEAN : OtherUse(draw)

NextOrder ==
  \/ OrderCall
  \/ ShuffleSeed
  \/ ShuffleStep
  \/ ShuffleReturn
  \/ PriorDraw

SpecOrder == InitOrder /\ [][NextOrder]_vars

NextShared ==
  \/ OrderCall
  \/ ShuffleSeed
  \/ ShuffleStep
  \/ ShuffleReturn
  \/ Interfere

SpecShared == InitOrder /\ [][NextShared]_vars

(***************************************************************************)
(* Properties of getTestScriptsWithOrder.                                  *)
(***************************************************************************)
\* The calls that returned without an error.
GoodCalls == {c \in DOMAIN calls : calls[c].err = ""}

Ascending(list) ==
  \A j \in 1 .. Len(list) - 1 : ~StrLess(list[j + 1], list[j])

Occurs(list, x) == Cardinality({j \in DOMAIN list : list[j] = x})
Permutation(a, b) ==
  /\ Len(a) = Len(b)
  /\ \A j \in DOMAIN a : Occurs(a, a[j]) = Occurs(b, a[j])

\* C7: two calls of getTestScriptsWithOrder on a Runner with InOrder unset
\* and one seed return the same root and the same order of scripts,
\* whatever was drawn from the generator between them.
C7_SameSeedSameOrder ==
  ~options.InOrder =>
    \A a, b \in DOMAIN calls : calls[a] = calls[b]

\* Two calls with a draw in between, the three scripts not in sorted order.
C7_Witness ==
  /\ ~options.InOrder
  /\ Len(calls) = 2
  /\ draws = 1
  /\ Len(calls[2].files) = 3
  /\ ~Ascending(calls[2].files)

\* C8: with InOrder set every call returns the root-relative paths of the
\* scripts in ascending byte-wise order, for every seed, and no step of
\* shuffleOrder is taken: the generator is not touched.
C8_InOrderSorted ==
  options.InOrder =>
    /\ pc = "RunCommand"
    /\ shuffleI = -1
    /\ draws = 0 => rng = RandUnseeded
    /\ \A c \in GoodCalls :
         /\ Ascending(calls[c].files)
         /\ \E got \in {getTestScripts(options)} :
              Permutation(calls[c].files, got.files)

\* The scripts under /t are found in another order than the sorted one.
C8_Witness ==
  /\ options.InOrder
  /\ options.RandomSeed = 1
  /\ Len(calls) = 1
  /\ calls[1].err = ""
  /\ calls[1].files =
       << <<"a", "-", "b", "/", "0", ".", "s", "h">>,
          <<"a", "/", "0", ".", "s", "h">>,
          <<"a", "/", "1", ".", "s", "h">> >>

\* C9 as stated: with InOrder unset a call returns what it returns when
\* nothing else uses a generator, even when another goroutine seeds or draws
\* while shuffleOrder is at work.
C9_ShuffleAlone ==
  ~options.InOrder =>
    \A c \in GoodCalls :
      \E alone \in {getTestScriptsWithOrder(options, RandUnseeded)} :
        calls[c].files = alone.files

\* dir is the directory the file is in.
ParentOf(dir, file) ==
  /\ dir \in Dirs
  /\ Len(file) > Len(dir) + 1
  /\ SubSeq(file, 1, Len(dir)) = dir
  /\ file[Len(dir) + 1] = "/"
  /\ \A j \in Len(dir) + 2 .. Len(file) : file[j] # "/"

\* C10: with one target every call that succeeds returns as root the
\* absolute path of the target when it is a directory and the directory the
\* target is in when it is a file, whether or not a script is found.
C10_SingleTargetRoot ==
  Len(options.TestTargets) = 1 =>
    \A c \in GoodCalls :
      \E target \in {Abs(options.TestTargets[1])} :
        IF target \in Dirs THEN calls[c].root = target
        ELSE target \in Files /\ ParentOf(calls[c].root, target)

\* A file is the only target and the include pattern does not match it.
C10_Witness ==
  /\ options.TestTargets = << <<"/", "t", "/", "a", "/", "0", ".", "s", "h">> >>
  /\ Len(calls) >= 1
  /\ calls[1].err = ""
  /\ calls[1].files = <<>>
  /\ calls[1].root = <<"/", "t", "/", "a">>

\* The absolute paths of the scripts a call returned.
ScriptPaths(c) ==
  {Join(<<calls[c].root, calls[c].files[k]>>) : k \in DOMAIN calls[c].files}

\* C11 as stated: with more than one target and exactly one script left by
\* the filters, the root is the directory the script is in and the script
\* is named by its file name; the root is not the path of the script.
C11_OneScriptParentRoot ==
  Len(options.TestTargets) > 1 =>
    \A c \in GoodCalls :
      Cardinality(ScriptPaths(c)) = 1 =>
        \A script \in ScriptPaths(c) :
          /\ calls[c].root # script
          /\ ParentOf(calls[c].root, script)
          /\ \A k \in DOMAIN calls[c].files :
               calls[c].root \o <<"/">> \o calls[c].files[k] = script

(***************************************************************************)
(* CommonPathPrefix called with lists of paths, as TestCommonPathPrefix    *)
(* calls it, beside Runners with InOrder set whose getTestScriptsWithOrder *)
(* is called.                                                              *)
(***************************************************************************)
Paths ==
  { <<"/", "a", "/", "b", "/", "x">>,
    <<"/", "a", "/", "b", "/", "q">>,
    <<"/", "a", "/", "b">>,
    <<"/", "a", "/", "b", "/">>,
    <<"/", "a", "/", "b", "x">>,
    <<"/">>,
    <<"a">>,
    <<"/", "t", "/", "a", "/", "b">> }

PathLists == UNION {[1 .. n -> Paths] : n \in 0 .. MaxPaths}

\* Options of a Runner that is constructed but not run: CommonPathPrefix reads none of them.
DefaultOptions ==
  [ TestTargets |-> << <<"/", "t">> >>,
    IncludeReStr |-> ReSuffixSh,
    ExcludeReStr |-> ReEmpty,
    InOrder |-> TRUE,
    RandomSeed |-> 0,
    JSONOutput |-> FALSE,
    Verbose |-> FALSE,
    DryRun |-> FALSE,
    Timeout |-> Second ]

InitPrefix ==
  /\ environ = Environ
  /\ \/ /\ options = DefaultOptions
        /\ pc = "CommonPathPrefix"
        /\ prefixPaths \in PathLists
        /\ prefixResult = <<>>
        /\ InitEngine
     \/ /\ options \in {o \in OrderOptions : o.InOrder /\ o.RandomSeed = 0}
        /\ InitRunner

\* CommonPathPrefix(paths) is called and returns.
PrefixCall ==
  /\ pc = "CommonPathPrefix"
  /\ prefixResult' = CommonPathPrefix(prefixPaths)
  /\ pc' = "returned"
  /\ UNCHANGED <<options, rng, testRoot, testFiles, i, passedResults, skippedResults,
                 failedResults, stdout, stderr, outputBuf, proc, waitStatus, waiter,
                 timer, writes, started, exitCodes, retErr, calls, shuffleList,
                 shuffleI, draws, prefixPaths, environ, childEnv, revisionVars>>

NextPrefix ==
  \/ PrefixCall
  \/ OrderCall

SpecPrefix == InitPrefix /\ [][NextPrefix]_vars

\* r is made of leading segments of the absolute path p.
SegmentPrefix(r, p) ==
  \/ r = p
  \/ r = <<"/">> /\ p # <<>> /\ p[1] = "/"
  \/ /\ Len(p) > Len(r)
     /\ SubSeq(p, 1, Len(r)) = r
     /\ p[Len(r) + 1] = "/"

\* r is the longest path made of leading segments of every path of the set.
LongestSegmentPrefix(r, absPaths) ==
  /\ r # <<>> /\ r[1] = "/"
  /\ \A p \in absPaths : SegmentPrefix(r, p)
  /\ \A p \in absPaths : \A n \in Len(r) + 1 .. Len(p) :
       \E q \in absPaths : ~SegmentPrefix(SubSeq(p, 1, n), q)

\* C12: CommonPathPrefix returns the longest path made of leading segments
\* of all its inputs (made absolute), with the leading separator, and the
\* empty string for no input; a call of getTestScripts with several targets
\* that finds more than one script returns as root that prefix of the
\* scripts found.
C12_LongestSegmentPrefix ==
  /\ pc = "returned" =>
       IF prefixPaths = <<>> THEN prefixResult = <<>>
       ELSE LongestSegmentPrefix(prefixResult,
                                 {Abs(prefixPaths[k]) : k \in DOMAIN prefixPaths})
  /\ Len(options.TestTargets) > 1 =>
       \A c \in GoodCalls :
         Len(calls[c].files) > 1 =>
           LongestSegmentPrefix(calls[c].root, ScriptPaths(c))

\* Two paths that share characters beyond their last common segment.
C12_Witness ==
  /\ pc = "returned"
  /\ prefixPaths = << <<"/", "a", "/", "b">>, <<"/", "a", "/", "b", "x">> >>
  /\ prefixResult = <<"/", "a">>

(***************************************************************************)
(* Properties of the include and exclude filters.                          *)
(***************************************************************************)
\* The targets of the Runner that name a regular file, made absolute.
FileTargets ==
  {Abs(options.TestTargets[t]) : t \in DOMAIN options.TestTargets} \cap Files

\* C13 as stated: a target that is a single file is kept whether or not its
\* path matches the include pattern; it is left out exactly when its path
\* matches the exclude pattern.
C13_ExplicitFileBypassesInclude ==
  \A c \in GoodCalls :
    \A p \in FileTargets :
      ~MatchString(options.ExcludeReStr, p) => p \in ScriptPaths(c)

\* C14: every path a call returns, taken under the returned root, matches
\* the include pattern and does not match the exclude pattern, whether it
\* was found by walking a directory or named as a target; a file named as a
\* target that does not match include is not in the list.
C14_ListedMatchFilters ==
  \A c \in GoodCalls :
    /\ \A p \in ScriptPaths(c) :
         /\ MatchString(options.IncludeReStr, p)
         /\ ~MatchString(options.ExcludeReStr, p)
    /\ \A p \in FileTargets :
         ~MatchString(options.IncludeReStr, p) => p \notin ScriptPaths(c)

\* A call that returns scripts although a file named as a target matches
\* neither pattern.
C14_Witness ==
  \E c \in GoodCalls :
    /\ ScriptPaths(c) # {}
    /\ \E p \in FileTargets :
         /\ ~MatchString(options.IncludeReStr, p)
         /\ ~MatchString(options.ExcludeReStr, p)

\* C15 as stated: the list a call returns names each script, identified by
\* its absolute path, at most once, also when the targets overlap.
C15_EachScriptOnce ==
  \A c \in GoodCalls :
    \A j, k \in DOMAIN calls[c].files :
      Join(<<calls[c].root, calls[c].files[j]>>) = Join(<<calls[c].root, calls[c].files[k]>>)
        => j = k

(***************************************************************************)
(* Properties of what a run writes.                                        *)
(***************************************************************************)
JsonDocuments(out) == {k \in DOMAIN out : out[k].kind = "json"}

\* C16 as stated: with JSONOutput set, a run that is not a dry run writes
\* nothing to stdout but one JSON document: while it runs stdout holds
\* nothing else, and when it has returned without an error of discovery
\* stdout is exactly that document, in verbose and in non-verbose mode.
C16_OnlyJsonDocument ==
  (options.JSONOutput /\ ~options.DryRun) =>
    /\ DOMAIN stdout = JsonDocuments(stdout)
    /\ Cardinality(JsonDocuments(stdout)) <= 1
    /\ RanTests => Cardinality(JsonDocuments(stdout)) = 1

\* The order shuffleOrder gives the scripts of the run when the generator
\* is seeded with `seed`.
OrderOfSeed(seed) ==
  ShuffleLoop(SortStrings(testFiles), Len(testFiles) - 1, RandSeedOf(seed)).list

\* C17: once discovery has succeeded, every "Using seed" line on stdout and
\* the seed field of every JSON document carry the RandomSeed of the
\* options, and the scripts are in the order shuffleOrder gives with that
\* seed; in text mode without InOrder the line is there; with InOrder no
\* "Using seed" line is written and the JSON seed field is -1.
C17_ReportedSeedMadeOrder ==
  (pc # "RunCommand" /\ calls[1].err = "") =>
    /\ \A k \in DOMAIN stdout :
         stdout[k].kind = "Using seed" =>
           /\ ~options.InOrder
           /\ stdout[k].a = options.RandomSeed
           /\ testFiles = OrderOfSeed(stdout[k].a)
    /\ \A k \in JsonDocuments(stdout) :
         IF options.InOrder THEN stdout[k].doc[1].Seed = -1
         ELSE /\ stdout[k].doc[1].Seed = options.RandomSeed
              /\ testFiles = OrderOfSeed(stdout[k].doc[1].Seed)
    /\ (~options.JSONOutput /\ ~options.InOrder) =>
         \E k \in DOMAIN stdout : stdout[k].kind = "Using seed"

\* A run in JSON mode whose seed put two scripts out of sorted order, and
\* whose document is written.
C17_Witness ==
  /\ RanTests
  /\ options.JSONOutput
  /\ ~options.InOrder
  /\ Len(testFiles) = 2
  /\ ~Ascending(testFiles)
  /\ \E k \in JsonDocuments(stdout) : stdout[k].doc[1].Seed = options.RandomSeed

\* The identifiers a listing on `out` names, in the order it names them.
RECURSIVE ListedFiles(_)
ListedFiles(out) ==
  IF out = <<>> THEN <<>>
  ELSE (IF Head(out).kind = "file" THEN <<Head(out).file>> ELSE <<>>) \o ListedFiles(Tail(out))

\* C18 as stated: with DryRun set no process is ever started and nothing is
\* put in a result list, and a run whose discovery succeeded has reported
\* the root and the scripts in their order on stdout, with JSONOutput set
\* as well as without.
C18_DryRunOnlyLists ==
  options.DryRun =>
    /\ started = <<>>
    /\ proc = <<>>
    /\ passedResults = <<>> /\ skippedResults = <<>> /\ failedResults = <<>>
    /\ (pc = "done" /\ calls[1].err = "") =>
         /\ \E k \in DOMAIN stdout : stdout[k].kind = "Test root" /\ stdout[k].file = testRoot
         /\ ListedFiles(stdout) = testFiles

\* The error discovery stops with, "" when it has none to stop with: a
\* pattern that does not compile, or a target that os.Stat cannot read.
DiscoveryError ==
  IF ~Compiles(options.IncludeReStr) THEN "Error parsing files to include"
  ELSE IF ~Compiles(options.ExcludeReStr) THEN "Error parsing files to exclude"
  ELSE IF \E t \in DOMAIN options.TestTargets : ~Stat(Abs(options.TestTargets[t])).ok
    THEN "Error reading test file"
  ELSE ""

\* C19: with an include or exclude pattern that does not compile, or a
\* target that cannot be read, RunCommand does nothing but return that
\* error: no process is ever started, no result list receives an entry and
\* nothing is written, neither a verdict nor a summary.
C19_DiscoveryErrorStopsRun ==
  DiscoveryError # "" =>
    /\ pc \in {"RunCommand", "done"}
    /\ pc = "done" => retErr = DiscoveryError
    /\ started = <<>> /\ proc = <<>>
    /\ passedResults = <<>> /\ skippedResults = <<>> /\ failedResults = <<>>
    /\ stdout = <<>> /\ stderr = <<>>

\* RunCommand has returned the error of a target that cannot be read.
C19_Witness ==
  /\ pc = "done"
  /\ retErr = "Error reading test file"
  /\ Compiles(options.IncludeReStr) /\ Compiles(options.ExcludeReStr)
  /\ started = <<>>

(***************************************************************************)
(* Runs with several timeouts, by a testbrain process that has or has not  *)
(* the timeout variable in its own environment already.                    *)
(***************************************************************************)
\* One second, as TestRunSingleTestTimeout sets it, a second and a half,
\* and two seconds.
Timeouts == {Second, Second + Second \div 2, 2 * Second}

Environs == {Environ, <<EnvEntry("TESTBRAIN_TIMEOUT", <<"9">>)>> \o Environ}

EnvOptions ==
  [ TestTargets : {<< <<"/", "t", "/", "a">> >>},
    IncludeReStr : {ReSuffixSh},
    ExcludeReStr : {ReEmpty},
    InOrder : {TRUE},
    RandomSeed : {0},
    JSONOutput : {FALSE},
    Verbose : BOOLEAN,
    DryRun : {FALSE},
    Timeout : Timeouts ]

InitEnv ==
  /\ options \in EnvOptions
  /\ environ \in Environs
  /\ InitRunner

SpecEnv == InitEnv /\ [][Next]_vars

\* The values a script finds for `key` in the environment it was given.
Getenv(env, key) == {env[k].value : k \in {j \in DOMAIN env : env[j].key = key}}

DigitValue(c) == CHOOSE n \in 0 .. 9 : Digits[n + 1] = c

\* The number a string of decimal digits denotes; "" denotes 0.
RECURSIVE ParseInt(_)
ParseInt(s) ==
  IF s = <<>> THEN 0
  ELSE 10 * ParseInt(SubSeq(s, 1, Len(s) - 1)) + DigitValue(s[Len(s)])

RECURSIVE PowerOfTen(_)
PowerOfTen(n) == IF n = 0 THEN 1 ELSE 10 * PowerOfTen(n - 1)

\* The nanoseconds in a decimal number of seconds with at most nine
\* decimals, -1 for a string that is no such number.
ParseSeconds(s) ==
  LET dots == {k \in DOMAIN s : s[k] = "."}
      whole == IF dots = {} THEN s
               ELSE SubSeq(s, 1, (CHOOSE k \in dots : TRUE) - 1)
      decimals == IF dots = {} THEN <<>>
                  ELSE SubSeq(s, (CHOOSE k \in dots : TRUE) + 1, Len(s))
  IN IF \/ Cardinality(dots) > 1
        \/ whole = <<>>
        \/ Len(decimals) > 9
        \/ \E k \in DOMAIN s : \A n \in 0 .. 9 : s[k] # "." /\ Digits[n + 1] # s[k]
       THEN -1
     ELSE ParseInt(whole) * Second + ParseInt(decimals) * PowerOfTen(9 - Len(decimals))

\* C20: every script for which a child process was started was given an
\* environment in which TESTBRAIN_TIMEOUT has one value, and that value is
\* a decimal number of seconds equal to the Timeout of the options.
C20_TimeoutInEnvironment ==
  \A k \in DOMAIN proc :
    proc[k] \notin {"idle", "nostart"} =>
      /\ k \in DOMAIN childEnv
      /\ Cardinality({j \in DOMAIN childEnv[k] : childEnv[k][j].key = "TESTBRAIN_TIMEOUT"}) = 1
      /\ \A v \in Getenv(childEnv[k], "TESTBRAIN_TIMEOUT") :
           ParseSeconds(v) = options.Timeout

\* Two scripts were started with a timeout of a second and a half by a
\* process whose own environment had another value for the variable.
C20_Witness ==
  /\ RanTests
  /\ options.Timeout = Second + Second \div 2
  /\ environ # Environ
  /\ N = 2
  /\ \A k \in 1 .. N : proc[k] # "nostart"
  /\ Getenv(childEnv[2], "TESTBRAIN_TIMEOUT") = {<<"1", ".", "5">>}

(***************************************************************************)
(* Properties of the processes and goroutines of a run.                    *)
(***************************************************************************)
\* The scripts whose child process was started and has not been reaped by
\* command.Wait: running, ended by itself, or killed.
Unreaped == {k \in DOMAIN proc : proc[k] \in {"running", "exited", "killed"}}

\* C21 as stated: at every moment at most one child process the harness
\* started is alive or not yet reaped; a script is not started while the
\* process of the one before it, killed for timeout or not, is unreaped.
C21_OneChildAtATime ==
  Cardinality(Unreaped) <= 1

(***************************************************************************)
(* Properties of discovery that finds nothing.                             *)
(***************************************************************************)
\* The files a target names or has below it.
Below(target) ==
  {f \in Files : f = Abs(target) \/ (Abs(target) \in Dirs /\ SegmentPrefix(Abs(target), f))}

\* The scripts the filters leave of what the targets of the Runner name.
Survivors ==
  {f \in UNION {Below(options.TestTargets[t]) : t \in DOMAIN options.TestTargets} :
     MatchString(options.IncludeReStr, f) /\ ~MatchString(options.ExcludeReStr, f)}

\* C22: with several targets, all of them readable, patterns that compile
\* and no script left by the filters, every call returns without an error
\* the empty string as root and an empty list.
C22_NothingFoundEmptyRoot ==
  (Len(options.TestTargets) > 1 /\ DiscoveryError = "" /\ Survivors = {}) =>
    \A c \in DOMAIN calls :
      calls[c] = CallResult("", <<>>, <<>>)

\* A call with two targets, a directory that has files among them, that
\* returned nothing.
C22_Witness ==
  /\ Len(options.TestTargets) > 1
  /\ DiscoveryError = ""
  /\ \E t \in DOMAIN options.TestTargets : Below(options.TestTargets[t]) # {}
  /\ Survivors = {}
  /\ Len(calls) > 0
  /\ calls[1] = CallResult("", <<>>, <<>>)

(***************************************************************************)
(* Properties of the route a test's output takes.                          *)
(***************************************************************************)
IsChunk(line) == line.kind \in {"stdout", "stderr"}

\* The chunks of output of script f that a sink holds.
Chunks(sink, f) == {j \in DOMAIN sink : IsChunk(sink[j]) /\ sink[j].file = f}

\* stdout[j] is part of a replay: behind a "Test output:" line that follows
\* the FAILED verdict of the script the chunk is from, with nothing but
\* chunks of that script in between.
Replayed(j) ==
  \E h \in 2 .. j - 1 :
    /\ stdout[h].kind = "Test output:"
    /\ stdout[h - 1] = Line("FAILED", stdout[j].file, 0, 0, 0)
    /\ \A m \in h + 1 .. j : IsChunk(stdout[m]) /\ stdout[m].file = stdout[j].file

\* C23: in verbose mode the output of a script goes straight to the
\* Runner's stdout and stderr, nothing is buffered and no "Test output:"
\* replay is written; in non-verbose mode nothing of it goes to stderr, and
\* stdout holds it only as the replay behind the FAILED verdict of that
\* script, so never for a passed or skipped one. No chunk is in two places:
\* the sinks and the buffer together hold no more chunks of the script at
\* work than it wrote.
C23_OneRouteForOutput ==
  /\ options.Verbose =>
       /\ outputBuf = <<>>
       /\ \A j \in DOMAIN stdout :
            stdout[j].kind \notin {"Test output:", "stderr"}
       /\ \A j \in DOMAIN stderr : stderr[j].kind # "stdout"
  /\ ~options.Verbose =>
       /\ \A j \in DOMAIN stderr : ~IsChunk(stderr[j])
       /\ \A j \in DOMAIN stdout : IsChunk(stdout[j]) => Replayed(j)
       /\ \A k \in 1 .. Completed :
            exitCodes[k] \in {0, skipTestExitCode} => Chunks(stdout, testFiles[k]) = {}
  /\ pc = "select" =>
       Cardinality(Chunks(stdout, testFiles[i])) + Cardinality(Chunks(stderr, testFiles[i]))
         + Cardinality(Chunks(outputBuf, testFiles[i])) = writes

\* In non-verbose mode a script that wrote output passed and one that wrote
\* output failed: only the output of the second is on stdout.
C23_Witness ==
  /\ RanTests
  /\ ~options.Verbose
  /\ N = 2
  /\ exitCodes = <<0, 3>>
  /\ Chunks(stdout, testFiles[1]) = {}
  /\ Chunks(stdout, testFiles[2]) # {}

(***************************************************************************)
(* Properties of the access to a test's buffer.                            *)
(***************************************************************************)
\* The goroutine exec.Cmd started to copy the output of script k into the
\* writer it was given can still write: it ends before command.Wait
\* returns, and Wait has not returned.
CopierLive(k) == waiter[k] = "waiting"

\* This step of the engine records a failed test in non-verbose mode: it
\* reads the test's buffer to replay it.
ReadsBuffer == ~options.Verbose /\ Len(failedResults') > Len(failedResults)

\* C24 as stated: the engine never reads the buffer of a test while the
\* copier of that test can still write to it, not even when it replays the
\* buffer of a test that timed out.
C24_BufferReadAfterCopier ==
  [][ReadsBuffer => ~CopierLive(i)]_vars

(***************************************************************************)
(* Properties of a script that cannot be started.                          *)
(***************************************************************************)
\* The "Test failed: <error>" message of command.Start for script f.
StartError(f) == Line("Test failed:", f, 0, 0, 0)
StartErrors(sink, f) == {j \in DOMAIN sink : sink[j] = StartError(f)}

\* The scripts runAllTests is through with whose command.Start failed.
NotStarted == {k \in 1 .. Completed : proc[k] = "nostart"}

LiveOptions ==
  [ TestTargets : {<< <<"/", "t", "/", "a">> >>},
    IncludeReStr : {ReSuffixSh},
    ExcludeReStr : {ReEmpty},
    InOrder : {TRUE},
    RandomSeed : {0},
    JSONOutput : BOOLEAN,
    Verbose : BOOLEAN,
    DryRun : {FALSE},
    Timeout : {Second} ]

InitLive ==
  /\ options \in LiveOptions
  /\ environ = Environ
  /\ InitRunner

\* Weak fairness of RunCommand, by what it comes to: the action is enabled
\* exactly while pc = "RunCommand", and its step ends that for good.
RunCommandFair == []<>(pc # "RunCommand")

EngineFair ==
  /\ RunCommandFair
  /\ WF_vars(StartTest)
  /\ WF_vars(SelectDone \/ SelectTimeout)
  /\ WF_vars(Finish)
  /\ WF_vars(TimerFire)

SpecLive == InitLive /\ [][Next]_vars /\ EngineFair

SpecReap == InitLive /\ [][Next]_vars /\ EngineFair /\ WF_vars(WaitReturns)

\* Where the goroutine that waits for script k is; "none" before it starts.
WaiterAt(k) == IF k \in DOMAIN waiter THEN waiter[k] ELSE "none"

\* C26 as stated: every goroutine runSingleTest starts to wait for a child
\* eventually finishes, also when the timeout branch was taken.
C26_WaiterFinishes ==
  \A k \in 1 .. Cardinality(Files) :
    (WaiterAt(k) = "waiting") ~> (WaiterAt(k) = "finished")

\* C27: RunCommand returns, and a select whose timer has fired ends the
\* test: runSingleTest does not stay in the select for a script that never
\* exits or whose command.Wait never returns.
C27_RunTerminates ==
  /\ <>(pc = "done")
  /\ (pc = "select" /\ timer = "fired") ~> (pc # "select")

\* RunCommand has returned although neither script ever exited and no
\* command.Wait has returned.
C27_Witness ==
  /\ RanTests
  /\ N = 2
  /\ \A k \in 1 .. N : proc[k] = "killed" /\ waiter[k] = "waiting"


(***************************************************************************)
(* shuffleOrder on its own: any list of paths, of length 0 to MaxList and  *)
(* with repeated entries allowed, is shuffled in place under any seed.     *)
(* testFiles keeps the list as the caller passed it.                       *)
(***************************************************************************)
ShuffleLists == UNION {[1 .. n -> Files] : n \in 0 .. MaxList}

InitShuffle ==
  /\ options \in {[DefaultOptions EXCEPT !.InOrder = FALSE, !.RandomSeed = seed] :
                    seed \in Seeds}
  /\ environ = Environ
  /\ pc = "shuffleOrder"
  /\ shuffleList \in ShuffleLists
  /\ testFiles = shuffleList
  /\ rng = RandUnseeded
  /\ testRoot = <<>>
  /\ i = 0
  /\ passedResults = <<>>
  /\ skippedResults = <<>>
  /\ failedResults = <<>>
  /\ stdout = <<>>
  /\ stderr = <<>>
  /\ outputBuf = <<>>
  /\ proc = <<>>
  /\ waitStatus = <<>>
  /\ waiter = <<>>
  /\ timer = "idle"
  /\ writes = 0
  /\ started = <<>>
  /\ exitCodes = <<>>
  /\ retErr = "pending"
  /\ calls = <<>>
  /\ shuffleI = -1
  /\ draws = 0
  /\ childEnv = <<>>
  /\ commandOutput = <<>>
  /\ timeoutReached = FALSE
  /\ callback = "idle"
  /\ ctx = "none"
  /\ testResult = <<>>
  /\ prefixPaths = <<>>
  /\ prefixResult = <<>>

NextShuffle == ShuffleSeed \/ ShuffleStep \/ ShuffleReturn

SpecShuffle == InitShuffle /\ [][NextShuffle]_vars

\* The source index drawn for the iteration at 0-based index shuffleI.
SourceIndex == RandIntn(rng, shuffleI + 1).value

\* One iteration exchanges the entries at 0-based indices shuffleI and
\* SourceIndex and leaves every other entry where it was.
SwapsAtDrawn ==
  (pc = "shuffleLoop" /\ shuffleI >= 1) =>
    /\ SourceIndex \in 0 .. shuffleI
    /\ shuffleList'[shuffleI + 1] = shuffleList[SourceIndex + 1]
    /\ shuffleList'[SourceIndex + 1] = shuffleList[shuffleI + 1]
    /\ \A m \in DOMAIN shuffleList \ {shuffleI + 1, SourceIndex + 1} :
         shuffleList'[m] = shuffleList[m]

\* C28: shuffleOrder only exchanges the entries at indices i and j with
\* 0 <= j <= i, so that under every seed the list stays a permutation of
\* the list passed in (same length, same number of occurrences of every
\* entry), and a list of length 0 or 1 is returned as it was.
C28_ShufflePermutes ==
  /\ [](/\ Permutation(shuffleList, testFiles)
        /\ Len(testFiles) <= 1 => shuffleList = testFiles)
  /\ [][SwapsAtDrawn]_vars

\* A list of three entries, two of them equal, came back in another order.
C28_Witness ==
  /\ pc = "RunCommand"
  /\ Len(calls) = 1
  /\ Len(testFiles) = 3
  /\ testFiles[1] = testFiles[2]
  /\ testFiles[3] # testFiles[1]
  /\ calls[1].files = shuffleList
  /\ shuffleList # testFiles


(***************************************************************************)
(* getTestScriptsWithOrder against the order of the targets and of the     *)
(* walk: Runners with every list of targets, a valid include expression,   *)
(* either sorting or shuffling.                                            *)
(***************************************************************************)
TargetOptions ==
  {o \in OrderOptions : o.IncludeReStr = ReSuffixSh /\ o.ExcludeReStr \in {ReEmpty, ReHas1}}

InitTargets ==
  /\ options \in TargetOptions
  /\ environ = Environ
  /\ InitRunner

\* The calls of one Runner, one after the other.
NextTargets ==
  \/ OrderCall
  \/ ShuffleSeed
  \/ ShuffleStep
  \/ ShuffleReturn

SpecTargets == InitTargets /\ [][NextTargets]_vars

\* Every reordering of a list.
Reorderings(list) ==
  {[k \in DOMAIN list |-> list[f[k]]] :
     f \in {g \in [DOMAIN list -> DOMAIN list] : \A a, b \in DOMAIN list : g[a] = g[b] => a = b}}

\* What a call returns to its caller: the error, the root and the order.
Returned(res) == CallResult(res.err, res.root, res.files)

\* The call of a Runner that was given the targets in another order.
WithTargets(targets) ==
  Returned(getTestScriptsWithOrder([options EXCEPT !.TestTargets = targets], RandUnseeded))

\* The call when the walk had reported the found paths a and a + 1 in each
\* other's place.
WithFound(res, a) ==
  Returned(OrderScripts(options,
                        ScriptsFound(options.TestTargets,
                                     [res EXCEPT !.found = Swap(res.found, a, a + 1)]),
                        RandUnseeded))

\* What discovery finds for the Runner's options, before the root is taken.
Discovered ==
  FindTests(options.TestTargets, options.IncludeReStr, options.ExcludeReStr, <<>>)

\* Every call so far returned res.
AllReturned(res) == \A c \in DOMAIN calls : calls[c] = res

\* C29: the root and the execution order depend neither on the order in
\* which the targets were given nor on the order in which the walk
\* reported the files: with the same scripts, the same InOrder flag and the
\* same seed, a Runner given any permutation of the targets returns what
\* this one returned, and so does one whose walk reported two neighbouring
\* found paths the other way round.
C29_TargetOrderIrrelevant ==
  (pc = "RunCommand" /\ calls # <<>>) =>
    /\ \A targets \in Reorderings(options.TestTargets) : AllReturned(WithTargets(targets))
    /\ \E res \in {Discovered} :
         \A a \in 1 .. Len(res.found) - 1 : AllReturned(WithFound(res, a))

\* Two targets that find different scripts, given as directory then file,
\* and shuffled into an order other than the sorted one.
C29_Witness ==
  /\ Len(options.TestTargets) = 2
  /\ options.TestTargets[1] # options.TestTargets[2]
  /\ ~options.InOrder
  /\ Len(calls) >= 1
  /\ calls[1].err = ""
  /\ Len(calls[1].files) = 3
  /\ calls[1].files # SortStrings(calls[1].files)
  /\ \E res \in {Discovered} : res.found # SortStrings(res.found)


(***************************************************************************)
(* runSingleTest in the two earlier revisions kept in lib/runner.go.       *)
(* The first (lines 192-228) waits for the script in the calling goroutine *)
(* while a time.AfterFunc callback kills the process and then sets         *)
(* timeoutReached under timeoutLock. The second (lines 542-591) starts the *)
(* script with exec.CommandContext under a context with the timeout as its *)
(* deadline, waits in a goroutine and selects between the wait result and  *)
(* a time.After channel of the same duration.                              *)
(* One script is run; proc, waitStatus, waiter, timer and writes have the  *)
(* meaning they have for the current revision.                             *)
(***************************************************************************)
runnerVars ==
  << options, rng, testRoot, testFiles, i, passedResults, skippedResults,
     failedResults, stdout, stderr, outputBuf, started, exitCodes, retErr, calls,
     shuffleList, shuffleI, draws, prefixPaths, prefixResult, environ >>

\* The script the revisions are called for.
RevisionFile == <<"0", ".", "s", "h">>

InitRevisions ==
  /\ options \in LiveOptions
  /\ environ = Environ
  /\ pc \in {"AfterFunc.Start", "WithTimeout.Start"}
  /\ testRoot = <<"/", "t", "/", "a">>
  /\ testFiles = <<RevisionFile>>
  /\ i = 1
  /\ rng = RandUnseeded
  /\ passedResults = <<>>
  /\ skippedResults = <<>>
  /\ failedResults = <<>>
  /\ stdout = <<>>
  /\ stderr = <<>>
  /\ outputBuf = <<>>
  /\ proc = <<"idle">>
  /\ waitStatus = <<NoStatus>>
  /\ waiter = <<"none">>
  /\ timer = "idle"
  /\ writes = 0
  /\ started = <<>>
  /\ exitCodes = <<>>
  /\ retErr = "pending"
  /\ calls = <<>>
  /\ shuffleList = <<>>
  /\ shuffleI = -1
  /\ draws = 0
  /\ prefixPaths = <<>>
  /\ prefixResult = <<>>
  /\ childEnv = <<>>
  /\ commandOutput = <<>>
  /\ timeoutReached = FALSE
  /\ callback = "idle"
  /\ ctx = "none"
  /\ testResult = <<>>

\* lib/test_result.go: the result of a test.
TestResult(testFile, success, exitCode, output) ==
  [TestFile |-> testFile, Success |-> success, ExitCode |-> exitCode, Output |-> output]

\* lib/test_result.go lines 15-22: the error's text is the output.
ErrorTestResult(testFile, err) ==
  TestResult(testFile, FALSE, unknownExitCode, <<Line(err, testFile, 0, 0, 0)>>)

\* os.ProcessState.Success.
Success(status) == status = Exited(0)

\* Lines 230-255 and 593-619: the exit code of the earlier revisions,
\* syscall.WaitStatus.ExitStatus being -1 for a process a signal ended.
ExitStatus(status) ==
  IF Success(status) THEN 0
  ELSE IF status.kind = "exited" THEN status.code
  ELSE -1

\* Lines 222-227 and 582-588: the result made from the wait status.
WaitResult(status, output) ==
  TestResult(RevisionFile, Success(status), ExitStatus(status), output)

\* What Wait reports for a process in state `state`.
StatusOf(state, status) == IF state = "killed" THEN Signaled ELSE status

\* Line 556: the timeout in whole seconds, printed with %d.
RevisionEnv(env, timeout) ==
  Append(env, EnvEntry("TESTBRAIN_TIMEOUT", FormatInt(Seconds(timeout).sec)))

\* The running script writes a chunk; both of its streams are the buffer.
RevisionWrite ==
  /\ pc \in {"AfterFunc.Wait", "WithTimeout.select"}
  /\ proc[1] = "running"
  /\ writes < MaxWrites
  /\ writes' = writes + 1
  /\ \E stream \in {"stdout", "stderr"} :
       commandOutput' = Append(commandOutput, ChildOutput(RevisionFile, stream))
  /\ UNCHANGED <<runnerVars, childEnv, pc, proc, waitStatus, waiter, timer,
                 timeoutReached, callback, ctx, testResult>>

\* The running script ends by itself.
RevisionEnd ==
  /\ pc \in {"AfterFunc.Wait", "WithTimeout.select"}
  /\ proc[1] = "running"
  /\ \E status \in EndStatuses : waitStatus' = <<status>>
  /\ proc' = <<"exited">>
  /\ UNCHANGED <<runnerVars, childEnv, pc, waiter, timer, writes, commandOutput,
                 timeoutReached, callback, ctx, testResult>>

\* Lines 193-208: the command is started with the environment of the
\* Runner and the timer is set, or Start fails.
AfterFuncStart ==
  /\ pc = "AfterFunc.Start"
  /\ \/ /\ proc' = <<"running">>
        /\ childEnv' = Append(childEnv, DedupEnv(environ))
        /\ timer' = "armed"
        /\ pc' = "AfterFunc.Wait"
        /\ UNCHANGED testResult
     \/ /\ proc' = <<"nostart">>
        /\ testResult' = <<ErrorTestResult(RevisionFile, "start")>>
        /\ pc' = "result"
        /\ UNCHANGED <<childEnv, timer>>
  /\ UNCHANGED <<runnerVars, waitStatus, waiter, writes, commandOutput,
                 timeoutReached, callback, ctx>>

\* Line 203: the timeout elapses and the runtime starts the callback in a
\* goroutine of its own.
AfterFuncFire ==
  /\ pc \in {"AfterFunc.Wait", "AfterFunc.Lock"}
  /\ timer = "armed"
  /\ timer' = "fired"
  /\ callback' = "Kill"
  /\ UNCHANGED <<runnerVars, childEnv, pc, proc, waitStatus, waiter, writes,
                 commandOutput, timeoutReached, ctx, testResult>>

\* Line 204: the callback kills the process.
CallbackKill ==
  /\ callback = "Kill"
  /\ proc' = <<Kill(proc[1])>>
  /\ callback' = "Lock"
  /\ UNCHANGED <<runnerVars, childEnv, pc, waitStatus, waiter, timer, writes,
                 commandOutput, timeoutReached, ctx, testResult>>

\* Lines 205-207: the callback takes timeoutLock, sets the flag and lets
\* the lock go.
CallbackSet ==
  /\ callback = "Lock"
  /\ timeoutReached' = TRUE
  /\ callback' = "done"
  /\ UNCHANGED <<runnerVars, childEnv, pc, proc, waitStatus, waiter, timer, writes,
                 commandOutput, ctx, testResult>>

\* Lines 209-210: command.Wait returns once the process has ended, and the
\* timer is stopped, which keeps a callback that has not begun from running.
AfterFuncWait ==
  /\ pc = "AfterFunc.Wait"
  /\ proc[1] \in {"exited", "killed"}
  /\ waitStatus' = <<StatusOf(proc[1], waitStatus[1])>>
  /\ timer' = IF timer = "armed" THEN "idle" ELSE timer
  /\ pc' = "AfterFunc.Lock"
  /\ UNCHANGED <<runnerVars, childEnv, proc, waiter, writes, commandOutput,
                 timeoutReached, callback, ctx, testResult>>

\* Lines 211-227: under timeoutLock the flag is read and the marker
\* written when it is set; the result is made from the wait status.
AfterFuncReturn ==
  /\ pc = "AfterFunc.Lock"
  /\ \E output \in {IF timeoutReached THEN Append(commandOutput, TimeoutMarker)
                    ELSE commandOutput} :
       /\ commandOutput' = output
       /\ testResult' = <<WaitResult(waitStatus[1], output)>>
  /\ pc' = "result"
  /\ UNCHANGED <<runnerVars, childEnv, proc, waitStatus, waiter, timer, writes,
                 timeoutReached, callback, ctx>>

\* Lines 543-573: the context gets its deadline, the command is started
\* with the timeout in its environment, a goroutine is set to wait for it
\* and the timer is set; or Start fails and the deferred cancel runs.
WithTimeoutStart ==
  /\ pc = "WithTimeout.Start"
  /\ \/ /\ proc' = <<"running">>
        /\ childEnv' = Append(childEnv, DedupEnv(RevisionEnv(environ, options.Timeout)))
        /\ waiter' = <<"waiting">>
        /\ timer' = "armed"
        /\ ctx' = "armed"
        /\ pc' = "WithTimeout.select"
        /\ UNCHANGED testResult
     \/ /\ proc' = <<"nostart">>
        /\ testResult' = <<ErrorTestResult(RevisionFile, "start")>>
        /\ ctx' = "canceled"
        /\ pc' = "result"
        /\ UNCHANGED <<childEnv, waiter, timer>>
  /\ UNCHANGED <<runnerVars, waitStatus, writes, commandOutput, timeoutReached,
                 callback>>

\* Line 548: exec.CommandContext kills the process when the context is
\* done, by its deadline or by the deferred cancel, before Wait has
\* returned.
ContextDone ==
  /\ ctx \in {"armed", "canceled"}
  /\ waiter[1] = "waiting"
  /\ proc' = <<Kill(proc[1])>>
  /\ ctx' = "done"
  /\ UNCHANGED <<runnerVars, childEnv, pc, waitStatus, waiter, timer, writes,
                 commandOutput, timeoutReached, callback, testResult>>

\* Line 569: the timeout elapses and the channel of time.After is ready.
WithTimeoutFire ==
  /\ pc = "WithTimeout.select"
  /\ timer = "armed"
  /\ timer' = "fired"
  /\ UNCHANGED <<runnerVars, childEnv, pc, proc, waitStatus, waiter, writes,
                 commandOutput, timeoutReached, callback, ctx, testResult>>

\* Lines 565-567: command.Wait returns in the goroutine, which offers the
\* result on done.
WithTimeoutWait ==
  /\ waiter[1] = "waiting"
  /\ proc[1] \in {"exited", "killed"}
  /\ waitStatus' = <<StatusOf(proc[1], waitStatus[1])>>
  /\ waiter' = <<"sending">>
  /\ UNCHANGED <<runnerVars, childEnv, pc, proc, timer, writes, commandOutput,
                 timeoutReached, callback, ctx, testResult>>

\* The deferred cancel of line 544.
Canceled(c) == IF c = "armed" THEN "canceled" ELSE c

\* Lines 576-580 and 588-590: the select receives from the timer.
SelectTimer ==
  /\ pc = "WithTimeout.select"
  /\ timer = "fired"
  /\ proc' = <<Kill(proc[1])>>
  /\ commandOutput' = Append(commandOutput, TimeoutMarker)
  /\ testResult' = <<TestResult(RevisionFile, FALSE, -1, commandOutput')>>
  /\ timer' = "idle"
  /\ ctx' = Canceled(ctx)
  /\ pc' = "result"
  /\ UNCHANGED <<runnerVars, childEnv, waitStatus, waiter, writes, timeoutReached,
                 callback>>

\* Lines 581-590: the select receives the wait result.
SelectWait ==
  /\ pc = "WithTimeout.select"
  /\ waiter[1] = "sending"
  /\ waiter' = <<"finished">>
  /\ testResult' = <<WaitResult(waitStatus[1], commandOutput)>>
  /\ ctx' = Canceled(ctx)
  /\ pc' = "result"
  /\ UNCHANGED <<runnerVars, childEnv, proc, waitStatus, timer, writes,
                 commandOutput, timeoutReached, callback>>

NextRevisions ==
  \/ RevisionWrite
  \/ RevisionEnd
  \/ AfterFuncStart
  \/ AfterFuncFire
  \/ CallbackKill
  \/ CallbackSet
  \/ AfterFuncWait
  \/ AfterFuncReturn
  \/ WithTimeoutStart
  \/ ContextDone
  \/ WithTimeoutFire
  \/ WithTimeoutWait
  \/ SelectTimer
  \/ SelectWait

SpecRevisions == InitRevisions /\ [][NextRevisions]_vars

\* The process ended by a kill that the elapsed timeout caused.
KilledByTimeout == proc[1] = "killed"

\* The output ends with the timeout marker.
EndsWithMarker(output) == output # <<>> /\ output[Len(output)] = TimeoutMarker

\* C30: in both earlier revisions of runSingleTest, when the process was
\* killed because the timeout elapsed, the result returned has Success
\* false, ExitCode -1 and an Output that ends with the timeout marker,
\* however the kill, the wait and the timer interleave.
C30_TimeoutResultMarked ==
  (pc = "result" /\ KilledByTimeout) =>
    /\ ~testResult[1].Success
    /\ testResult[1].ExitCode = -1
    /\ EndsWithMarker(testResult[1].Output)

====
